---- MODULE Spec2Model ----
(***************************************************************************)
(* Model of the scheduled ingestion pipeline of the MRL indexer worker     *)
(* (indexer/src/lib.rs, `scheduled`): watermark query, event fetch and     *)
(* filter, token reconciliation, price matching, USD normalisation and     *)
(* chunked persistence into the D1 tables Token and TransfersForward.      *)
(*                                                                         *)
(* Spec runs the pipeline over event lists that vary in block, hash,       *)
(* sender and block number; SpecMatch over batches and price series that   *)
(* vary in token and timestamp; SpecTokens over an event source that grows *)
(* and whose token metadata change; SpecUsd over amounts, decimals and     *)
(* rates; SpecOverflow over amounts and decimals at the limits of u128;    *)
(* SpecConc interleaves two invocations.  The store fails as D1 may: a     *)
(* query or a statement can return an error, an INSERT that violates the   *)
(* primary key fails as a whole.                                           *)
(*                                                                         *)
(* Amounts of money are kept in micro-dollars (integers); the rounding of  *)
(* f32 arithmetic is not modelled.                                         *)
(***************************************************************************)
EXTENDS Integers, Sequences, FiniteSets, TLC

\* ------------------------------------------------------------------ bounds

\* Longest event list the event source holds.
MaxEvents == 3
\* Records per INSERT statement; the program uses 250 (lib.rs:345), scaled
\* down so that a batch of MaxEvents records spans more than one chunk.
ChunkSize == 2
\* Longest price series the price feed returns.
MaxSeries == 3
\* Largest timestamp of a price sample or a transfer.
MaxTime == 3
\* Longest batch of the runs that vary the timestamps.
MaxBatch == 2
\* Largest exchange rate (whole dollars) of the runs that vary the amounts.
MaxRate == 2

\* ------------------------------------------------------- program constants

\* Fallback of the watermark query (lib.rs:164, lib.rs:167).
GENESIS == 4164120
\* Upper sentinel of the fetch window (lib.rs:187).
END_BLOCK == 999999999
\* Token::default().decimals and the fallback of the decimals parse.
DEFAULT_DECIMALS == 18
\* Placeholder destination chain of every TransferForward (lib.rs:211).
TO_CHAIN == 1000
\* calculate_usd keeps six decimal places.
SIX == 6
\* 10_u128.pow(n) fits a u128 up to n = 38 (lib.rs:397); from n = 128 on the
\* wrapped power is 0.
U128_DIGITS == 38
U128_BITS == 128

\* H160::default(), the zero address, and some other sender.
ZERO_ADDR == "0x0000"
OTHER_ADDR == "0x0abc"

\* A block number that is not a number (BlockNumber::Latest, Pending, ...),
\* a timestamp string that does not parse, a decimals string that does not
\* parse.
ABSENT == -1

\* A U256 amount above u128::MAX.
HUGE == -2

\* The usd computed with a power of ten that wrapped.
WRAPPED == -3

Procs == {1, 2}

VARIABLES
    source,      \* the event source: transfer events, ascending by block
    feed,        \* the price feed: the series get_twelve_data returns
    token,       \* table Token
    transfers,   \* table TransfersForward
    runners,     \* the invocations the scheduler may start
    run          \* per invocation: position and locals of `scheduled`

vars == <<source, feed, token, transfers, runners, run>>

\* ----------------------------------------------------------------- helpers

Range(s) == {s[i] : i \in 1..Len(s)}

Max(S) == CHOOSE x \in S : \A y \in S : y <= x

Min2(a, b) == IF a <= b THEN a ELSE b

AbsDiff(a, b) == IF a >= b THEN a - b ELSE b - a

RECURSIVE Pow10(_)
Pow10(n) == IF n = 0 THEN 1 ELSE 10 * Pow10(n - 1)

\* ------------------------------------------------------ conversions (pure)

\* e.block_number.as_number().unwrap_or(U64::from(0)).as_u64()
BlockNum(block_number) == IF block_number = ABSENT THEN 0 ELSE block_number

\* tx.timestamp.parse().unwrap_or(0)
ParseTimestamp(time_stamp) == IF time_stamp = ABSENT THEN 0 ELSE time_stamp

\* e.token_decimal.parse::<u32>().unwrap_or(18)
ParseDecimals(token_decimal) ==
    IF token_decimal = ABSENT THEN DEFAULT_DECIMALS ELSE token_decimal

\* sym.contains(ticker), for the symbols of the model.
SymContains(sym, ticker) ==
    <<sym, ticker>> \in {<<"USDT", "USDT">>, <<"xcUSDT", "USDT">>,
                         <<"USDC", "USDC">>, <<"DAI", "DAI">>,
                         <<"WBTC", "BTC">>}

\* token_count / 10_u128.pow(n), the integer division: dividing n times by
\* ten truncates to the same quotient.
RECURSIVE DivPow10(_, _)
DivPow10(token_count, n) ==
    IF n = 0 THEN token_count ELSE DivPow10(token_count \div 10, n - 1)

\* calculate_usd without the branch that keeps six decimal places.
calculate_usd_WholeUnits(exchange_rate, token_count, token_decimals) ==
    exchange_rate * DivPow10(token_count, token_decimals) * Pow10(SIX)

\* calculate_usd, in micro-dollars, for a whole-dollar exchange rate.
calculate_usd(exchange_rate, token_count, token_decimals) ==
    IF token_decimals >= SIX
    THEN exchange_rate * DivPow10(token_count, token_decimals - SIX)
    ELSE exchange_rate * DivPow10(token_count, token_decimals) * Pow10(SIX)

\* 10_u128.pow in calculate_usd: with overflow checks (`checked`) a power
\* that does not fit panics; without them it wraps, and the division by a
\* power that wrapped to 0 panics.
PowOutcome(token_decimals, checked) ==
    LET n == IF token_decimals >= SIX THEN token_decimals - SIX
             ELSE token_decimals
    IN  IF n <= U128_DIGITS THEN "ok"
        ELSE IF checked \/ n >= U128_BITS THEN "panic"
        ELSE "wrap"

\* tx.usd after calculate_usd.
Usd(exchange_rate, token_count, token_decimals, checked) ==
    IF PowOutcome(token_decimals, checked) = "wrap" THEN WRAPPED
    ELSE calculate_usd(exchange_rate, token_count, token_decimals)

\* TimeSeries::estimate: the representative price of a sample.
estimate(sample) == sample.price

\* get_twelve_data: the series of the feed's response; an empty response is
\* an error.
get_twelve_data(response) ==
    [ok |-> response # <<>>, twelve_data |-> response]

\* ------------------------------------------------------------------ store

\* SELECT MAX(block_num) AS most_recent_block FROM TransfersForward
MaxBlockNum(tr) == Max({r.block_num : r \in tr})

\* The match on the query's result (lib.rs:161-168).
ResumeBlock(result, tr) ==
    IF result = "Err" THEN GENESIS
    ELSE IF tr = {} THEN GENESIS
    ELSE MaxBlockNum(tr)

\* TxListParams::new(block + 1, 999999999, 0, 0, Sort::Asc)
StartBlock_Overlap(block) == block

StartBlock(block) == block + 1

\* INSERT OR IGNORE INTO Token ...: rows whose contract_addr exists are kept.
InsertOrIgnoreTokens_Replace(tk, rows) ==
    {u \in tk : \A t \in rows : t.contract_addr # u.contract_addr} \cup rows

InsertOrIgnoreTokens(tk, rows) ==
    tk \cup {t \in rows : \A u \in tk : u.contract_addr # t.contract_addr}

\* One INSERT INTO TransfersForward statement violates the primary key when a
\* tx_hash of the chunk is already in the table or occurs twice in the chunk.
PrimaryKeyConflict(tr, chunk) ==
    \/ \E i \in 1..Len(chunk) : \E r \in tr : r.tx_hash = chunk[i].tx_hash
    \/ \E i, j \in 1..Len(chunk) : i < j /\ chunk[i].tx_hash = chunk[j].tx_hash

\* A statement either inserts all of its rows or none.
StatementSucceeds(tr, chunk, fails) == ~fails /\ ~PrimaryKeyConflict(tr, chunk)

InsertChunk(tr, chunk, fails) ==
    IF StatementSucceeds(tr, chunk, fails) THEN tr \cup Range(chunk) ELSE tr

\* filtered_etherscan_data.chunks(250)
Chunks(s) ==
    [k \in 1..((Len(s) + ChunkSize - 1) \div ChunkSize) |->
        SubSeq(s, (k - 1) * ChunkSize + 1, Min2(k * ChunkSize, Len(s)))]

\* db.batch(statements): the statements run in order; `fails` says which of
\* them the store rejects for a reason of its own.
\* A batch that stops at its first failed statement.
RECURSIVE BatchStore_StopsAtFailure(_, _, _, _)
BatchStore_StopsAtFailure(tr, chunks, fails, k) ==
    IF k > Len(chunks) \/ ~StatementSucceeds(tr, chunks[k], fails[k]) THEN tr
    ELSE BatchStore_StopsAtFailure(InsertChunk(tr, chunks[k], fails[k]),
                                   chunks, fails, k + 1)

RECURSIVE BatchStore(_, _, _, _)
BatchStore(tr, chunks, fails, k) ==
    IF k > Len(chunks) THEN tr
    ELSE BatchStore(InsertChunk(tr, chunks[k], fails[k]), chunks, fails, k + 1)

RECURSIVE BatchResults(_, _, _, _)
BatchResults(tr, chunks, fails, k) ==
    IF k > Len(chunks) THEN <<>>
    ELSE <<StatementSucceeds(tr, chunks[k], fails[k])>>
         \o BatchResults(InsertChunk(tr, chunks[k], fails[k]), chunks, fails, k + 1)

\* ---------------------------------------------------------- event source

\* get_erc20_token_transfer_events over [from, END_BLOCK], ascending.
EventsFrom(from) ==
    SelectSeq(source, LAMBDA e : e.blk >= from /\ e.blk <= END_BLOCK)

\* ------------------------------------------------------- filter, transform

IsMint(e) == e.from = ZERO_ADDR

\* e.value.as_u128() panics on an amount above u128::MAX (lib.rs:207).
AsU128Panics(events) ==
    \E i \in 1..Len(events) : IsMint(events[i]) /\ events[i].value = HUGE

ToTransferForward(e) ==
    [tx_hash     |-> e.hash,
     token_addr  |-> e.contract_address,
     token_count |-> e.value,
     usd         |-> 0,
     block_num   |-> BlockNum(e.block_number),
     timestamp   |-> e.time_stamp,
     to_chain    |-> TO_CHAIN]

FilterMap_All(events) ==
    [i \in 1..Len(events) |-> ToTransferForward(events[i])]

RECURSIVE FilterMap(_)
FilterMap(events) ==
    IF events = <<>> THEN <<>>
    ELSE (IF IsMint(Head(events)) THEN <<ToTransferForward(Head(events))>> ELSE <<>>)
         \o FilterMap(Tail(events))

ToToken(e) ==
    [contract_addr |-> e.contract_address,
     token_name    |-> e.token_name,
     token_sym     |-> e.token_symbol,
     decimals      |-> ParseDecimals(e.token_decimal)]

\* collect::<HashMap<String, Token>>(): a later event of an address replaces
\* the entry of an earlier one.
TokenHash(events) ==
    LET mints == SelectSeq(events, IsMint)
        addrs == {mints[i].contract_address : i \in 1..Len(mints)}
        last(a) == Max({i \in 1..Len(mints) : mints[i].contract_address = a})
    IN  [a \in addrs |-> ToToken(mints[last(a)])]

DefaultToken ==
    [contract_addr |-> "", token_name |-> "", token_sym |-> "",
     decimals |-> DEFAULT_DECIMALS]

\* token_hash.get(&addr).unwrap_or(&Token::default())
TokenOf(token_hash, addr) ==
    IF addr \in DOMAIN token_hash THEN token_hash[addr] ELSE DefaultToken

is_usd_stablecoin_Exact(token_hash, token_addr) ==
    TokenOf(token_hash, token_addr).token_sym \in {"USDT", "USDC", "DAI"}

is_usd_stablecoin(token_hash, token_addr) ==
    LET sym == TokenOf(token_hash, token_addr).token_sym
    IN  SymContains(sym, "USDT") \/ SymContains(sym, "USDC") \/ SymContains(sym, "DAI")

IsBtc(token_hash, token_addr) ==
    SymContains(TokenOf(token_hash, token_addr).token_sym, "BTC")

\* A transfer the loop prices from the series.
Priced(token_hash, tx) ==
    ~is_usd_stablecoin(token_hash, tx.token_addr) /\ ~IsBtc(token_hash, tx.token_addr)

\* ---------------------------------------------------------- price matching

\* The loop of lib.rs:319-337 for one transfer, from the shared index
\* (0-based, as in the program).  `ts` is the 1-based position of the sample
\* the loop breaks with; `panic` is twelve_data.last().unwrap() on an empty
\* series.
RECURSIVE ClosestSample_TieLater(_, _, _)
ClosestSample_TieLater(twelve_data, twelve_index, tx_timestamp) ==
    IF twelve_index >= Len(twelve_data)
    THEN [twelve_index |-> twelve_index, ts |-> Len(twelve_data),
          panic |-> (twelve_data = <<>>)]
    ELSE LET cur == twelve_data[twelve_index + 1]
             nxt == IF twelve_index + 2 <= Len(twelve_data)
                    THEN twelve_data[twelve_index + 2] ELSE cur
         IN  IF \/ twelve_index + 2 > Len(twelve_data)
                \/ AbsDiff(cur.timestamp, tx_timestamp)
                      < AbsDiff(nxt.timestamp, tx_timestamp)
             THEN [twelve_index |-> twelve_index, ts |-> twelve_index + 1,
                   panic |-> FALSE]
             ELSE ClosestSample_TieLater(twelve_data, twelve_index + 1,
                                         tx_timestamp)

\* The loop with an index of its own for every transfer.
RECURSIVE ScanFrom(_, _, _)
ScanFrom(twelve_data, i, tx_timestamp) ==
    IF i >= Len(twelve_data)
    THEN [twelve_index |-> i, ts |-> Len(twelve_data),
          panic |-> (twelve_data = <<>>)]
    ELSE LET cur == twelve_data[i + 1]
             nxt == IF i + 2 <= Len(twelve_data) THEN twelve_data[i + 2] ELSE cur
         IN  IF AbsDiff(cur.timestamp, tx_timestamp)
                    <= AbsDiff(nxt.timestamp, tx_timestamp)
             THEN [twelve_index |-> i, ts |-> i + 1, panic |-> FALSE]
             ELSE ScanFrom(twelve_data, i + 1, tx_timestamp)

ClosestSample_FromStart(twelve_data, twelve_index, tx_timestamp) ==
    ScanFrom(twelve_data, 0, tx_timestamp)

RECURSIVE ClosestSample(_, _, _)
ClosestSample(twelve_data, twelve_index, tx_timestamp) ==
    IF twelve_index >= Len(twelve_data)
    THEN [twelve_index |-> twelve_index, ts |-> Len(twelve_data),
          panic |-> (twelve_data = <<>>)]
    ELSE LET cur == twelve_data[twelve_index + 1]
             nxt == IF twelve_index + 2 <= Len(twelve_data)
                    THEN twelve_data[twelve_index + 2] ELSE cur
         IN  IF AbsDiff(cur.timestamp, tx_timestamp)
                    <= AbsDiff(nxt.timestamp, tx_timestamp)
             THEN [twelve_index |-> twelve_index, ts |-> twelve_index + 1,
                   panic |-> FALSE]
             ELSE ClosestSample(twelve_data, twelve_index + 1, tx_timestamp)

\* The body of `for tx in &mut filtered_etherscan_data` for the k-th
\* transfer: the state of the sweep after it.
SweepStep(st, tx, token_hash, twelve_data, checked) ==
    LET token_decimals == TokenOf(token_hash, tx.token_addr).decimals
        overflow == PowOutcome(token_decimals, checked) = "panic"
    IN  IF st.panic THEN st
        ELSE IF is_usd_stablecoin(token_hash, tx.token_addr)
        THEN IF overflow THEN [st EXCEPT !.panic = TRUE]
             ELSE [st EXCEPT
                     !.data = Append(@, [tx EXCEPT !.usd =
                                 Usd(1, tx.token_count, token_decimals, checked)]),
                     !.ts = Append(@, 0),
                     !.trail = Append(@, st.twelve_index)]
        ELSE IF IsBtc(token_hash, tx.token_addr)
        THEN [st EXCEPT !.data = Append(@, tx), !.ts = Append(@, 0),
                        !.trail = Append(@, st.twelve_index)]
        ELSE LET m == ClosestSample(twelve_data, st.twelve_index,
                                    ParseTimestamp(tx.timestamp))
             IN  IF m.panic \/ overflow THEN [st EXCEPT !.panic = TRUE]
                 ELSE [data |-> Append(st.data, [tx EXCEPT !.usd =
                            Usd(estimate(twelve_data[m.ts]),
                                tx.token_count, token_decimals, checked)]),
                       ts |-> Append(st.ts, m.ts),
                       trail |-> Append(st.trail, m.twelve_index),
                       twelve_index |-> m.twelve_index,
                       panic |-> FALSE]

\* lib.rs:302-340: the sweep over the whole batch, twelve_index starting at 0.
RECURSIVE Sweep(_, _, _, _, _, _)
Sweep(st, filtered, k, token_hash, twelve_data, checked) ==
    IF k > Len(filtered) THEN st
    ELSE Sweep(SweepStep(st, filtered[k], token_hash, twelve_data, checked),
               filtered, k + 1, token_hash, twelve_data, checked)

MatchAndNormalize(filtered, token_hash, twelve_data, checked) ==
    Sweep([data |-> <<>>, ts |-> <<>>, trail |-> <<>>, twelve_index |-> 0,
           panic |-> FALSE],
          filtered, 1, token_hash, twelve_data, checked)

\* ------------------------------------------------------------ invocations

\* The locals of an invocation that has not run yet.
Fresh ==
    [pc               |-> "idle",
     last             |-> "",          \* how the invocation before it ended
     outcome          |-> "",
     result           |-> "",          \* of the MAX(block_num) query
     block            |-> 0,
     from_block       |-> 0,           \* first block asked of the event source
     etherscan_result |-> <<>>,
     filtered         |-> <<>>,        \* filtered_etherscan_data
     token_hash       |-> <<>>,
     ts               |-> <<>>,        \* sample each transfer was priced with
     trail            |-> <<>>,        \* twelve_index after each transfer
     issued           |-> {},          \* tables it sent a write statement for
     wrote            |-> {},          \* tables it added rows to
     rejected         |-> <<>>,        \* statements the store failed on its own
     batch            |-> <<>>]        \* success of each statement of the batch

Ended(p) == run[p].pc \in {"done", "panicked"}

\* An invocation that returned with nothing left to write: it found no event,
\* or every statement of its batch succeeded.
Complete(r) ==
    /\ r.pc = "done"
    /\ \/ r.outcome = "empty"
       \/ r.outcome = "persisted" /\ \A k \in 1..Len(r.batch) : r.batch[k]

Goto(p, r) == run' = [run EXCEPT ![p] = r]

\* `return` after a console_error!/console_log!.
Return(r, outcome) == [r EXCEPT !.pc = "done", !.outcome = outcome]

\* lib.rs:190-193: the event source failed.
FetchFailed_Continues(r) == [r EXCEPT !.pc = "tokens", !.outcome = "fetch_error"]

FetchFailed(r) == Return(r, "fetch_error")

\* lib.rs:284-287: the price feed failed.
PriceFailed_Continues(r) == [r EXCEPT !.pc = "persist", !.outcome = "price_error"]

PriceFailed_Unwraps(r) == [r EXCEPT !.pc = "panicked"]

PriceFailed(r) == Return(r, "price_error")

\* The scheduler fires: a new invocation starts from fresh locals.  With one
\* runner the invocations are serial.
Start(p) ==
    /\ p \in runners
    /\ run[p].pc = "idle" \/ Ended(p)
    /\ Goto(p, [Fresh EXCEPT
                  !.pc = "cursor",
                  !.last = IF ~Ended(p) THEN "none"
                           ELSE IF Complete(run[p]) THEN "complete"
                           ELSE "incomplete"])
    /\ UNCHANGED <<source, feed, token, transfers, runners>>

\* 1. lib.rs:159-168: the watermark query and the match on its result.
ResolveCursor(p) ==
    /\ run[p].pc = "cursor"
    /\ \E result \in {"Ok", "Err"} :
          Goto(p, [run[p] EXCEPT
                     !.pc = "fetch",
                     !.result = IF result = "Err" THEN "Err"
                                ELSE IF transfers = {} THEN "None" ELSE "Some",
                     !.block = ResumeBlock(result, transfers)])
    /\ UNCHANGED <<source, feed, token, transfers, runners>>

\* 2, 3. lib.rs:183-246: the fetch, the early returns, the filter, the token
\* map.  e.value.as_u128() panics on an amount above u128::MAX and
\* filtered_etherscan_data.first().unwrap() on an empty list.
FetchEvents(p) ==
    /\ run[p].pc = "fetch"
    /\ LET from == StartBlock(run[p].block)
           r == [run[p] EXCEPT !.from_block = from]
       IN  \/ Goto(p, FetchFailed(r))
           \/ LET etherscan_result == EventsFrom(from)
                  filtered == FilterMap(etherscan_result)
              IN  IF Len(etherscan_result) = 0
                  THEN Goto(p, Return(r, "empty"))
                  ELSE IF AsU128Panics(etherscan_result) \/ filtered = <<>>
                  THEN Goto(p, [r EXCEPT !.pc = "panicked",
                                         !.etherscan_result = etherscan_result])
                  ELSE Goto(p, [r EXCEPT
                                  !.pc = "tokens",
                                  !.etherscan_result = etherscan_result,
                                  !.filtered = filtered,
                                  !.token_hash = TokenHash(etherscan_result)])
    /\ UNCHANGED <<source, feed, token, transfers, runners>>

\* 4. lib.rs:247-276: INSERT OR IGNORE INTO Token.  A result that is not a
\* success is logged; an Err ends the invocation.
ReconcileTokens(p) ==
    /\ run[p].pc = "tokens"
    /\ LET r == [run[p] EXCEPT !.issued = @ \cup {"Token"}]
           rows == {run[p].token_hash[a] : a \in DOMAIN run[p].token_hash}
           tk == InsertOrIgnoreTokens(token, rows)
       IN  \/ /\ token' = tk
              /\ Goto(p, [r EXCEPT !.pc = "price",
                                   !.wrote = IF tk # token THEN @ \cup {"Token"}
                                             ELSE @])
           \/ /\ token' = token
              /\ Goto(p, [r EXCEPT !.pc = "price"])
           \/ /\ token' = token
              /\ Goto(p, Return(r, "token_error"))
    /\ UNCHANGED <<source, feed, transfers, runners>>

\* 4, 5. lib.rs:279-365: the price series, the sweep, the statements.  An Err
\* of get_twelve_data (the call failed, or the response was empty) ends the
\* invocation; twelve_data.last().unwrap() panics on an empty series, and
\* 10_u128.pow on a power that does not fit when the build checks overflow.
FetchPrices(p) ==
    /\ run[p].pc = "price"
    /\ \E checked \in BOOLEAN :
          LET res == get_twelve_data(feed)
              m == MatchAndNormalize(run[p].filtered, run[p].token_hash,
                                     res.twelve_data, checked)
          IN  \/ Goto(p, PriceFailed(run[p]))
              \/ IF ~res.ok
                 THEN Goto(p, PriceFailed(run[p]))
                 ELSE IF m.panic
                 THEN Goto(p, [run[p] EXCEPT !.pc = "panicked"])
                 ELSE Goto(p, [run[p] EXCEPT !.pc = "persist",
                                             !.filtered = m.data,
                                             !.ts = m.ts,
                                             !.trail = m.trail])
    /\ UNCHANGED <<source, feed, token, transfers, runners>>

\* 6. lib.rs:368-387: db.batch(statements).  Err: nothing was written.  Ok:
\* one result per statement; a failed statement leaves the others alone.
PersistBatch(p) ==
    /\ run[p].pc = "persist"
    /\ LET chunks == Chunks(run[p].filtered)
           r == [run[p] EXCEPT !.pc = "done",
                               !.issued = @ \cup {"TransfersForward"}]
       IN  \/ /\ transfers' = transfers
              /\ Goto(p, [r EXCEPT !.outcome =
                            IF @ = "" THEN "batch_error" ELSE @])
           \/ \E fails \in [1..Len(chunks) -> BOOLEAN] :
                 LET tr == BatchStore(transfers, chunks, fails, 1)
                 IN  /\ transfers' = tr
                     /\ Goto(p, [r EXCEPT
                                   !.outcome = IF @ = "" THEN "persisted" ELSE @,
                                   !.wrote = IF tr # transfers
                                             THEN @ \cup {"TransfersForward"}
                                             ELSE @,
                                   !.rejected = fails,
                                   !.batch = BatchResults(transfers, chunks,
                                                          fails, 1)])
    /\ UNCHANGED <<source, feed, token, runners>>

Next ==
    \E p \in Procs :
        \/ Start(p)
        \/ ResolveCursor(p)
        \/ FetchEvents(p)
        \/ ReconcileTokens(p)
        \/ FetchPrices(p)
        \/ PersistBatch(p)

\* ------------------------------------------------------------------ inputs

Hashes == {"0xh1", "0xh2", "0xh3"}
Blocks == {GENESIS, GENESIS + 1, GENESIS + 2}

Ascending(s) == \A i \in 1..(Len(s) - 1) : s[i].blk <= s[i + 1].blk

SeqsUpTo(S, n) == UNION {[1..k -> S] : k \in 0..n}

Sample(t, price) == [timestamp |-> t, price |-> price]

\* An event of block blk: the explorer reports the block's number or none.
Event(hash, blk, from, numbered) ==
    [hash             |-> hash,
     blk              |-> blk,
     from             |-> from,
     block_number     |-> IF numbered THEN blk ELSE ABSENT,
     contract_address |-> "0xweth",
     token_name       |-> "Wrapped Ether",
     token_symbol     |-> "WETH",
     token_decimal    |-> 8,
     value            |-> 150000000,
     time_stamp       |-> blk - GENESIS + 1]

\* Mints of every hash and block, one hash also without a block number, and
\* one transaction per block that is not a mint.
PipelineEvents ==
    {Event(h, b, ZERO_ADDR, TRUE) : h \in Hashes, b \in Blocks}
    \cup {Event("0xh3", b, ZERO_ADDR, FALSE) : b \in Blocks}
    \cup {Event("0xh3", b, OTHER_ADDR, TRUE) : b \in Blocks}

\* The store after /reset: both tables empty.
EmptyStore ==
    /\ token = {}
    /\ transfers = {}
    /\ runners = {1}
    /\ run = [p \in Procs |-> Fresh]

\* The pipeline over event lists that vary in block, hash, sender and block
\* number, with one token and a fixed price series.
Init ==
    /\ source \in {s \in SeqsUpTo(PipelineEvents, MaxEvents) : Ascending(s)}
    /\ feed = <<Sample(1, 2), Sample(3, 4)>>
    /\ EmptyStore

Spec == Init /\ [][Next]_vars

\* The scheduler fires an invocation that has not run yet.
StartOnce(p) == run[p].pc = "idle" /\ Start(p)

\* Every invocation is fired once.  With two runners their steps interleave:
\* every await of `scheduled` is a point where the other invocation may run.
NextOnce ==
    \E p \in Procs :
        \/ StartOnce(p)
        \/ ResolveCursor(p)
        \/ FetchEvents(p)
        \/ ReconcileTokens(p)
        \/ FetchPrices(p)
        \/ PersistBatch(p)

\* The k-th event of a batch whose tokens and timestamps vary: one
\* transaction per block, every sender the zero address.
MatchEvent(k, tok, time_stamp) ==
    [hash             |-> IF k = 1 THEN "0xh1" ELSE IF k = 2 THEN "0xh2" ELSE "0xh3",
     blk              |-> GENESIS + k,
     from             |-> ZERO_ADDR,
     block_number     |-> GENESIS + k,
     contract_address |-> tok[1],
     token_name       |-> tok[2],
     token_symbol     |-> tok[2],
     token_decimal    |-> tok[3],
     value            |-> 150000000,
     time_stamp       |-> time_stamp]

MatchTokens ==
    {<<"0xweth", "WETH", 8>>, <<"0xusdc", "USDC", 6>>, <<"0xwbtc", "WBTC", 8>>}

\* Timestamp strings: the times 1..MaxTime and one that does not parse.
TimeStamps == {ABSENT} \cup 1..MaxTime

\* A transfer that the series does not price carries the time of the one
\* before it: its timestamp takes no part in the sweep.
Stamped(tk, t) ==
    \A k \in DOMAIN tk :
        tk[k][2] # "WETH" => t[k] = IF k = 1 THEN 1 ELSE t[k - 1]

\* The stablecoin of the second transfer is another one, whose symbol only
\* contains the ticker.
TokenAt(k, tok) ==
    IF k = 2 /\ tok[2] = "USDC" THEN <<"0xusdt", "xcUSDT", 8>> ELSE tok

MatchBatches ==
    UNION {{[k \in 1..n |-> MatchEvent(k, TokenAt(k, tk[k]), t[k])] :
                <<tk, t>> \in {x \in [1..n -> MatchTokens] \X [1..n -> TimeStamps] :
                                 Stamped(x[1], x[2])}} :
           n \in 0..MaxBatch}

\* Price series in ascending order of timestamp, timestamps repeated or not.
Series ==
    {s \in SeqsUpTo({Sample(t, t + 1) : t \in 1..MaxTime}, MaxSeries) :
        \A i \in 1..(Len(s) - 1) : s[i].timestamp <= s[i + 1].timestamp}

\* One invocation over batches and price series that vary in timestamps and
\* tokens.
InitMatch ==
    /\ source \in MatchBatches
    /\ feed \in Series
    /\ EmptyStore

SpecMatch == InitMatch /\ [][NextOnce]_vars

\* What the explorer reports of a token: address, symbol (and name), decimals
\* string.  The reports of one address differ in symbol and in decimals.
TokenReports ==
    {<<"0xweth", "WETH", 8>>, <<"0xweth", "WETH", ABSENT>>,
     <<"0xweth", "USDC", 8>>, <<"0xusdc", "USDC", 6>>}

\* The chain grows: a mint in a new block, its token as the explorer reports
\* it at that time.
Mint ==
    /\ Len(source) < MaxEvents
    /\ \E tok \in TokenReports :
          source' = Append(source, MatchEvent(Len(source) + 1, tok,
                                              Len(source) + 1))
    /\ UNCHANGED <<feed, token, transfers, runners, run>>

NextTokens == Next \/ Mint

InitTokens ==
    /\ source = <<>>
    /\ feed = <<Sample(1, 2), Sample(3, 4)>>
    /\ EmptyStore

\* The pipeline over an event source that grows between and during the
\* invocations, with token metadata that changes.
SpecTokens == InitTokens /\ [][NextTokens]_vars

\* Raw amounts and decimals strings: amounts around a whole number of
\* millionths for six decimals or more, around a whole number of units below.
UsdCases ==
    ({1500000, 1500001, 1499999, 2000000, 999999, 0} \X {6})
    \cup ({15000000, 15000009, 14999999, 9} \X {7})
    \cup ({150000000, 150000099, 149999999, 99} \X {8})
    \cup ({500, 599, 499, 99, 0} \X {2})
    \cup ({500, 0} \X {0})
    \cup ({50000000, 59999999, 49999999} \X {5})

\* One mint of a token priced from the series, its amount and decimals
\* varying, and one price.
InitUsd ==
    /\ \E c \in UsdCases :
          source = <<[MatchEvent(1, <<"0xweth", "WETH", c[2]>>, 1)
                         EXCEPT !.value = c[1]]>>
    /\ \E rate \in 1..MaxRate : feed = <<Sample(1, rate)>>
    /\ EmptyStore

SpecUsd == InitUsd /\ [][Next]_vars

\* Numbered mints of two transactions in the two blocks after genesis.
ConcEvents ==
    {Event(h, b, ZERO_ADDR, TRUE) :
        h \in {"0xh1", "0xh2"}, b \in {GENESIS + 1, GENESIS + 2}}

InitConc ==
    /\ source \in {s \in SeqsUpTo(ConcEvents, MaxEvents) : Ascending(s)}
    /\ feed = <<Sample(1, 2), Sample(3, 4)>>
    /\ token = {}
    /\ transfers = {}
    /\ runners = Procs
    /\ run = [p \in Procs |-> Fresh]

SpecConc == InitConc /\ [][NextOnce]_vars

\* Amounts and decimals strings at the limits of u128: 10^38 fits, 10^39
\* does not, 10^128 wraps to 0.
OverflowCases ==
    {150000000, HUGE} \X {8, U128_DIGITS + SIX, U128_DIGITS + SIX + 1,
                           U128_BITS + SIX, ABSENT}

\* One mint, its amount and decimals at the limits, of a token priced from
\* the series or of a stablecoin.
InitOverflow ==
    /\ \E c \in OverflowCases, sym \in {"WETH", "USDC"} :
          source = <<[MatchEvent(1, <<"0xtok", sym, c[2]>>, 1)
                         EXCEPT !.value = c[1]]>>
    /\ feed = <<Sample(1, 2)>>
    /\ EmptyStore

SpecOverflow == InitOverflow /\ [][Next]_vars

\* ------------------------------------------------------------------ claims

Hash(tr) == {r.tx_hash : r \in tr}

\* No invocation is under way.
Quiescent == \A p \in Procs : run[p].pc = "idle" \/ Ended(p)

\* The invocation has asked the event source for its window.
Asked(p) == run[p].from_block # 0

\* C1: an invocation whose MAX(block_num) query succeeds and finds a record
\* asks the event source for the blocks from max(block_num) + 1 on, the
\* maximum being taken over the persisted records (which the invocation has
\* not yet added to).
C1_WindowStartsAfterWatermark ==
    \A p \in Procs :
        (Asked(p) /\ run[p].result = "Some"
                  /\ "TransfersForward" \notin run[p].issued)
            => run[p].from_block = MaxBlockNum(transfers) + 1

\* A later invocation found records up to block GENESIS + 1 and fetched
\* events from GENESIS + 2 on.
C1_Witness ==
    \E p \in Procs :
        /\ run[p].pc = "tokens"
        /\ run[p].result = "Some"
        /\ run[p].from_block = GENESIS + 2

\* C2: on an empty store, and after a failed watermark query, the first block
\* asked of the event source is the genesis constant itself.
C2_WindowStartsAtGenesis ==
    \A p \in Procs :
        (Asked(p) /\ run[p].result \in {"None", "Err"})
            => run[p].from_block = GENESIS

\* C3: between invocations, every mint of the event source from the first
\* fetched block on whose block number is at or below the watermark has its
\* transaction hash in TransfersForward.
C3_NoTransferDropped ==
    (Quiescent /\ transfers # {}) =>
        \A i \in 1..Len(source) :
            (/\ source[i].from = ZERO_ADDR
             /\ source[i].blk >= GENESIS + 1
             /\ BlockNum(source[i].block_number) <= MaxBlockNum(transfers))
                => source[i].hash \in Hash(transfers)

\* C4: an invocation that follows a complete one (same event source, the
\* store as the complete one left it) leaves TransfersForward as it was, and
\* no transaction hash is held twice.
C4_SecondRunChangesNothing ==
    [][/\ \A p \in Procs : run[p].last = "complete" => transfers' = transfers
       /\ \A r1, r2 \in transfers' : r1.tx_hash = r2.tx_hash => r1 = r2]_vars

\* C5: in a batch whose records have distinct hashes, a statement the store
\* does not fail on its own reports success and all of its records are in
\* TransfersForward afterwards, whether or not some of its hashes were
\* already persisted.
C5_ReingestIsNoOp ==
    \A p \in Procs :
        LET chunks == Chunks(run[p].filtered)
            distinct == \A i, j \in 1..Len(run[p].filtered) :
                            i # j => run[p].filtered[i].tx_hash
                                        # run[p].filtered[j].tx_hash
        IN  (run[p].pc = "done" /\ run[p].batch # <<>> /\ distinct) =>
                \A k \in 1..Len(chunks) :
                    ~run[p].rejected[k] =>
                        /\ run[p].batch[k]
                        /\ \A i \in 1..Len(chunks[k]) :
                              chunks[k][i].tx_hash \in Hash(transfers)

\* C6: an invocation whose fetch succeeds and holds no mint returns cleanly
\* ("empty"), having sent no write statement.
C6_EmptyFilterEndsCleanly ==
    \A p \in Procs :
        (/\ Asked(p)
         /\ run[p].outcome # "fetch_error"
         /\ \A i \in 1..Len(source) :
               source[i].blk >= run[p].from_block => source[i].from # ZERO_ADDR)
            => /\ run[p].pc = "done"
               /\ run[p].outcome = "empty"
               /\ run[p].issued = {}

\* C7: every record of TransfersForward is the transform of an event of the
\* event source whose sender is the zero address.
C7_OnlyMintsPersisted ==
    \A r \in transfers :
        \E i \in 1..Len(source) :
            /\ source[i].from = ZERO_ADDR
            /\ r.tx_hash = source[i].hash
            /\ r.token_addr = source[i].contract_address
            /\ r.token_count = source[i].value
            /\ r.block_num = BlockNum(source[i].block_number)
            /\ r.timestamp = source[i].time_stamp

\* An invocation fetched an event of another sender and persisted records.
C7_Witness ==
    \E p \in Procs :
        /\ run[p].outcome = "persisted"
        /\ "TransfersForward" \in run[p].wrote
        /\ \E i \in 1..Len(run[p].etherscan_result) :
              run[p].etherscan_result[i].from # ZERO_ADDR

\* C8 as stated: an invocation that ends on a failure of the event source or
\* of the price feed has added no row to any table.
C8_NoWriteBeforeApiFailure ==
    \A p \in Procs :
        run[p].outcome \in {"fetch_error", "price_error"}
            => run[p].pc = "done" /\ run[p].wrote = {}

\* C8, amended: a failure of the event source ends the invocation before any
\* write statement; a failure of the price feed ends it after the Token
\* insert and before any write to TransfersForward.
C8_ApiFailureEndsRun ==
    \A p \in Procs :
        /\ run[p].outcome = "fetch_error"
              => run[p].pc = "done" /\ run[p].issued = {}
        /\ run[p].outcome = "price_error"
              => /\ run[p].pc = "done"
                 /\ run[p].issued = {"Token"}
                 /\ run[p].wrote \subseteq {"Token"}

\* The price feed failed after the invocation had inserted a token.
C8_Witness ==
    \E p \in Procs :
        run[p].outcome = "price_error" /\ run[p].wrote = {"Token"}

\* C9: no step of an invocation up to and including its fetch changes a
\* table, and an invocation that ends on a failure of the event source has
\* sent no write statement: the watermark it read is still the watermark.
C9_FetchFailureLeavesStore ==
    /\ [][\A p \in Procs :
            (run[p].pc \in {"cursor", "fetch"} \/ run'[p].pc = "cursor")
                => token' = token /\ transfers' = transfers]_vars
    /\ [](\A p \in Procs :
            run[p].outcome = "fetch_error" =>
                /\ run[p].pc = "done"
                /\ run[p].issued = {} /\ run[p].wrote = {}
                /\ run[p].result = "None" => transfers = {}
                /\ run[p].result = "Some" =>
                      transfers # {} /\ MaxBlockNum(transfers) = run[p].block)

\* The event source failed for an invocation that had found records.
C9_Witness ==
    \E p \in Procs :
        run[p].outcome = "fetch_error" /\ run[p].result = "Some"

\* The series is in ascending order of timestamp.
Sorted(series) ==
    \A i, j \in 1..Len(series) :
        i < j => series[i].timestamp <= series[j].timestamp

\* The series is in ascending order and no two samples share a timestamp.
StrictlySorted(series) ==
    \A i, j \in 1..Len(series) :
        i < j => series[i].timestamp < series[j].timestamp

\* The batch is in ascending order of parsed timestamp.
SortedBatch(batch) ==
    \A i, j \in 1..Len(batch) :
        i < j => ParseTimestamp(batch[i].timestamp)
                    <= ParseTimestamp(batch[j].timestamp)

\* Sample i is as close to t as any sample of the series.
Closest(series, i, t) ==
    \A j \in 1..Len(series) :
        AbsDiff(series[i].timestamp, t) <= AbsDiff(series[j].timestamp, t)

\* The earliest of the samples closest to t.
Nearest(series, t) ==
    CHOOSE i \in 1..Len(series) :
        Closest(series, i, t) /\ \A j \in 1..(i - 1) : ~Closest(series, j, t)

\* The invocation has swept its batch over the series.
Swept(p) == run[p].ts # <<>> /\ run[p].pc \in {"persist", "done"}

\* Transfer k of the swept batch, if priced from the series, is priced with a
\* sample as close to its timestamp as any.
PricedByClosest(p, k) ==
    LET tx == run[p].filtered[k]
        i == run[p].ts[k]
    IN  Priced(run[p].token_hash, tx) =>
            /\ i \in 1..Len(feed)
            /\ Closest(feed, i, ParseTimestamp(tx.timestamp))
            /\ tx.usd = calculate_usd(estimate(feed[i]), tx.token_count,
                            TokenOf(run[p].token_hash, tx.token_addr).decimals)

\* Transfer k of the swept batch, if priced from the series, is priced with
\* the earliest closest sample, which is the last one for a timestamp beyond
\* the series.
PricedByNearest(p, k) ==
    LET tx == run[p].filtered[k]
        t == ParseTimestamp(tx.timestamp)
        n == Nearest(feed, t)
    IN  Priced(run[p].token_hash, tx) =>
            /\ run[p].ts[k] = n
            /\ t > feed[Len(feed)].timestamp => run[p].ts[k] = Len(feed)
            /\ tx.usd = calculate_usd(estimate(feed[n]), tx.token_count,
                            TokenOf(run[p].token_hash, tx.token_addr).decimals)

C12_TokenImmutable ==
    /\ [][/\ token \subseteq token'
          /\ \A t \in token' \ token :
                \A u \in token : u.contract_addr # t.contract_addr]_vars
    /\ [](\A t, u \in token : t.contract_addr = u.contract_addr => t = u)

\* An invocation's insert succeeded and added a row, while its batch reported
\* another address with metadata that differ from the row the table holds.
C12_Witness ==
    \E p \in Procs :
        /\ run[p].pc = "price"
        /\ "Token" \in run[p].wrote
        /\ \E a \in DOMAIN run[p].token_hash :
              \E t \in token :
                  t.contract_addr = a /\ t # run[p].token_hash[a]

\* C13: an invocation that has sent the Token insert and returned got at
\* least as far as the price fetch, whatever the store answered: it ended on
\* the price feed or on its TransfersForward batch, not on the Token insert.
C13_TokenFailureContinues ==
    \A p \in Procs :
        ("Token" \in run[p].issued /\ run[p].pc = "done")
            => run[p].outcome \in {"price_error", "batch_error", "persisted"}

\* The records of the chunks before the k-th.
Earlier(chunks, k) == UNION {Range(chunks[j]) : j \in 1..(k - 1)}

\* C14: the batch is cut into consecutive chunks of at most ChunkSize records
\* (250 in the program), one statement each.  No step removes a record from
\* TransfersForward; a statement the store does not fail on its own and whose
\* hashes are new commits its records even when another statement of the
\* batch failed; and every statement reported as a success has its records
\* in the table from then on.
C14_ChunkedPersistence ==
    /\ [][/\ transfers \subseteq transfers'
          /\ \A p \in Procs :
                (run[p].pc = "persist" /\ run'[p].outcome = "persisted") =>
                    LET chunks == Chunks(run[p].filtered)
                    IN  \A k \in 1..Len(chunks) :
                            (/\ ~run'[p].rejected[k]
                             /\ ~PrimaryKeyConflict(
                                    transfers \cup Earlier(chunks, k), chunks[k]))
                                => Range(chunks[k]) \subseteq transfers']_vars
    /\ [](\A p \in Procs :
            (run[p].pc = "done" /\ run[p].outcome = "persisted") =>
                LET chunks == Chunks(run[p].filtered)
                IN  /\ \A k \in 1..Len(chunks) : Len(chunks[k]) \in 1..ChunkSize
                    /\ \A i \in 1..Len(run[p].filtered) :
                          run[p].filtered[i] =
                              chunks[((i - 1) \div ChunkSize) + 1]
                                    [((i - 1) % ChunkSize) + 1]
                    /\ Len(run[p].batch) = Len(chunks)
                    /\ \A k \in 1..Len(chunks) :
                          run[p].batch[k] => Range(chunks[k]) \subseteq transfers)

\* The first statement of a batch failed and the second committed.
C14_Witness ==
    \E p \in Procs :
        /\ run[p].pc = "done"
        /\ run[p].batch = <<FALSE, TRUE>>
        /\ Range(Chunks(run[p].filtered)[2]) \subseteq transfers
        /\ ~(Range(Chunks(run[p].filtered)[1]) \subseteq transfers)

\* q is count / 10^n rounded down.
IsFloor(q, count, n) == q * Pow10(n) <= count /\ count < (q + 1) * Pow10(n)

\* usd (micro-dollars) is count normalized at `decimals` and a whole-dollar
\* rate: rate * floor(count / 10^(decimals - 6)) millionths for six decimals
\* or more, rate * floor(count / 10^decimals) dollars below.
Normalized(usd, rate, count, decimals) ==
    IF decimals >= SIX
    THEN usd % rate = 0 /\ IsFloor(usd \div rate, count, decimals - SIX)
    ELSE usd % (rate * Pow10(SIX)) = 0
         /\ IsFloor(usd \div (rate * Pow10(SIX)), count, decimals)

\* The symbols of the model that contain "USDT", "USDC" or "DAI".
StableSymbols == {"USDT", "xcUSDT", "USDC", "DAI"}

\* The event of the source a record was made from.
EventOf(r) == CHOOSE e \in Range(source) : e.hash = r.tx_hash

\* C15: a transfer whose token symbol contains "USDT", "USDC" or "DAI" gets
\* the usd of its amount at rate 1 and the token's decimals, whatever the
\* price series holds, and leaves the price-series index where it was; the
\* records of TransfersForward carry that usd.
C15_StablecoinShortcut ==
    /\ \A p \in Procs :
          Swept(p) =>
              \A k \in 1..Len(run[p].filtered) :
                  LET tx == run[p].filtered[k]
                      tk == run[p].token_hash[tx.token_addr]
                  IN  tk.token_sym \in StableSymbols =>
                          /\ Normalized(tx.usd, 1, tx.token_count, tk.decimals)
                          /\ run[p].trail[k] =
                                 IF k = 1 THEN 0 ELSE run[p].trail[k - 1]
    /\ \A r \in transfers :
          EventOf(r).token_symbol \in StableSymbols =>
              Normalized(r.usd, 1, r.token_count,
                         ParseDecimals(EventOf(r).token_decimal))

\* A stablecoin whose symbol only contains the ticker was persisted after a
\* transfer that had moved the index, and the index stayed.
C15_Witness ==
    \E p \in Procs :
        /\ run[p].pc = "done" /\ Len(run[p].filtered) = 2
        /\ run[p].token_hash[run[p].filtered[2].token_addr].token_sym = "xcUSDT"
        /\ run[p].trail = <<1, 1>>
        /\ run[p].filtered[2] \in transfers
        /\ run[p].filtered[2].usd = 1500000

\* count without its part below the sixth decimal place.
SixPlaces(count, decimals) ==
    IF decimals >= SIX THEN count - (count % Pow10(decimals - SIX)) ELSE count

\* C16: the usd of a transfer priced at `rate` is rate * floor(count /
\* 10^(decimals - 6)) / 10^6 for six decimals or more and rate * floor(count
\* / 10^decimals) below; it is the usd of the amount without its part below
\* the sixth decimal place; calculate_usd(2, 1500000, 6) is 3 dollars and
\* calculate_usd(1, 500, 2) is 5 dollars.
C16_TruncatingNormalization ==
    \A p \in Procs :
        Swept(p) =>
            \A k \in 1..Len(run[p].filtered) :
                LET tx == run[p].filtered[k]
                    d == run[p].token_hash[tx.token_addr].decimals
                    rate == estimate(feed[run[p].ts[k]])
                IN  /\ Normalized(tx.usd, rate, tx.token_count, d)
                    /\ Normalized(tx.usd, rate, SixPlaces(tx.token_count, d), d)
                    /\ (rate = 2 /\ tx.token_count = 1500000 /\ d = 6)
                          => tx.usd = 3000000
                    /\ (rate = 1 /\ tx.token_count = 500 /\ d = 2)
                          => tx.usd = 5000000

\* An amount with a part below the sixth decimal place was normalized and
\* persisted: 1.50000099 units at 2 dollars are 3 dollars.
C16_Witness ==
    \E p \in Procs :
        /\ run[p].pc = "done"
        /\ \E r \in transfers :
              r.token_count = 150000099 /\ r.usd = 3000000

\* The invocation ended with every call it made a success: no API failed and
\* the store failed no statement for a reason of its own.
Unhindered(p) ==
    /\ run[p].pc = "done" /\ run[p].outcome = "persisted"
    /\ \A k \in 1..Len(run[p].rejected) : ~run[p].rejected[k]

\* C17: with two interleaved invocations, TransfersForward never holds two
\* records of one transaction hash, and once two invocations that read the
\* same watermark have both ended, no call of theirs having failed, every
\* mint both of them fetched has its transaction hash in TransfersForward.
C17_InterleavedRuns ==
    /\ \A r1, r2 \in transfers : r1.tx_hash = r2.tx_hash => r1 = r2
    /\ (Unhindered(1) /\ Unhindered(2) /\ run[1].block = run[2].block) =>
          \A i \in 1..Len(run[1].filtered) :
              (\E j \in 1..Len(run[2].filtered) :
                    run[2].filtered[j].tx_hash = run[1].filtered[i].tx_hash)
                  => run[1].filtered[i].tx_hash \in Hash(transfers)

\* C18: every record an invocation adds to a non-empty TransfersForward has a
\* block_num at or above the largest block_num the table held before, also
\* when the event had no block number and when the watermark query fell back
\* to the genesis constant.
C18_BlockNumMonotonic ==
    [][transfers # {} =>
          \A r \in transfers' \ transfers :
              r.block_num >= MaxBlockNum(transfers)]_vars

\* C19: whatever amount and decimals the event source reports, no invocation
\* panics and no usd is computed with a power of ten that wrapped.
C19_NoOverflow ==
    /\ \A p \in Procs :
          /\ run[p].pc # "panicked"
          /\ \A k \in 1..Len(run[p].filtered) : run[p].filtered[k].usd # WRAPPED
    /\ \A r \in transfers : r.usd # WRAPPED

\* C20: with a non-empty series, an invocation that reaches the sweep does
\* not panic and ends it with every transfer handled; the index after each
\* transfer is at or above the index before it (0 before the first) and
\* below the length of the series, so the loop ran at most once per sample
\* and never took the end-of-series branch, also for a timestamp that does
\* not parse.
C20_IndexBounded ==
    \A p \in Procs :
        (feed # <<>> /\ run[p].filtered # <<>>
                    /\ run[p].pc \in {"persist", "done", "panicked"}
                    /\ run[p].outcome \in {"", "persisted", "batch_error"}) =>
            /\ run[p].pc # "panicked"
            /\ Len(run[p].trail) = Len(run[p].filtered)
            /\ \A k \in 1..Len(run[p].trail) :
                  /\ run[p].trail[k] >= (IF k = 1 THEN 0 ELSE run[p].trail[k - 1])
                  /\ run[p].trail[k] < Len(feed)
                  /\ run[p].ts[k] \in {0, run[p].trail[k] + 1}

\* A transfer moved the index and the next one, whose timestamp does not
\* parse, was priced from the sample the index had stopped at.
C20_Witness ==
    \E p \in Procs :
        /\ Swept(p) /\ Len(run[p].filtered) = 2
        /\ run[p].filtered[2].timestamp = ABSENT
        /\ run[p].trail[1] >= 1
        /\ run[p].ts = <<run[p].trail[1] + 1, run[p].trail[1] + 1>>

====
